---- MODULE Spec2Model ----
(***************************************************************************)
(* Task Tracker CLI (task_cli.py): one process per command, the task       *)
(* collection persisted as a JSON array in tasks.json.                     *)
(*                                                                         *)
(* Spec      sequential invocations, the disk always writable              *)
(* SpecFail  sequential invocations, the disk may become read-only or full *)
(* SpecConc  two terminals whose invocations interleave at load/open/write *)
(***************************************************************************)
EXTENDS Integers, Sequences, FiniteSets, TLC

VARIABLES
    file,      \* content of tasks.json
    clock,     \* wall clock, in half seconds
    disk,      \* condition of the file system: "ok", "readonly", "full"
    argv,      \* sys.argv[1:] of the most recent invocation
    out,       \* what the most recent invocation printed
    highest,   \* history: the greatest id an add has assigned so far
    pc,        \* per terminal: position of its invocation
    pending,   \* per terminal: the collection its invocation is about to save
    wrote      \* per terminal: the collection it last wrote in full

vars == <<file, clock, disk, argv, out, highest, pc, pending, wrote>>

----------------------------------------------------------------------------
(* Bounds *)

MaxTid   == 3      \* greatest id an add may assign
MaxLen   == 2      \* tasks in the collection
MaxClock == 2      \* last reading of the wall clock, in half seconds

Terminals == {1, 2}

Range(s) == {s[i] : i \in 1..Len(s)}

----------------------------------------------------------------------------
(* Conversions *)

\* str.lower() on the tokens used as verbs and filters
lower(s) ==
    CASE s = "ADD"       -> "add"
      [] s = "List"      -> "list"
      [] s = "Completed" -> "completed"
      [] OTHER           -> s

\* int(token): [ok |-> FALSE] stands for ValueError
int(s) ==
    CASE s = "1"  -> [ok |-> TRUE, val |-> 1]
      [] s = "2"  -> [ok |-> TRUE, val |-> 2]
      [] s = "3"  -> [ok |-> TRUE, val |-> 3]
      [] s = "02" -> [ok |-> TRUE, val |-> 2]
      [] OTHER    -> [ok |-> FALSE, val |-> 0]

\* " ".join(args)
RECURSIVE join(_)
join(args) ==
    IF Len(args) = 0 THEN ""
    ELSE IF Len(args) = 1 THEN args[1]
    ELSE args[1] \o " " \o join(Tail(args))

\* datetime.utcnow().replace(microsecond=0).isoformat() + "Z":
\* the whole seconds of the clock, the fraction dropped
now_iso == clock \div 2

\* number of decimal digits of a positive id
Digits(n) == IF n < 10 THEN 1 ELSE 2

\* bytes of one task object as json.dump(indent=2) writes it
ItemSize(t) == 141 + Digits(t.id) + Len(t.description) + Len(t.status)

RECURSIVE SumSizes(_)
SumSizes(tasks) ==
    IF tasks = <<>> THEN 0 ELSE ItemSize(Head(tasks)) + SumSizes(Tail(tasks))

\* bytes of json.dump(tasks, f, indent=2)
JsonSize(tasks) ==
    IF tasks = <<>> THEN 2
    ELSE 4 + SumSizes(tasks) + 2 * (Len(tasks) - 1)

----------------------------------------------------------------------------
(* The file *)

Absent      == [kind |-> "absent",      tasks |-> <<>>, size |-> 0]
Truncated   == [kind |-> "malformed",   tasks |-> <<>>, size |-> 0]
Malformed   == [kind |-> "malformed",   tasks |-> <<>>, size |-> 5]
NonList     == [kind |-> "nonlist",     tasks |-> <<>>, size |-> 14]
Undecodable == [kind |-> "undecodable", tasks |-> <<>>, size |-> 2]

\* the file after json.dump wrote the whole of tasks into it
Dumped(tasks) == [kind |-> "list", tasks |-> tasks, size |-> JsonSize(tasks)]

\* the file after a write of only the first n bytes of a dump
Partial(n) == [kind |-> "malformed", tasks |-> <<>>, size |-> n]

\* load_tasks(): the collection, the warning printed, or the exception
\* that json.load lets through (only JSONDecodeError is caught)
load_tasks(f) ==
    CASE f.kind = "absent"      -> [raised |-> FALSE, tasks |-> <<>>,    warn |-> ""]
      [] f.kind = "list"        -> [raised |-> FALSE, tasks |-> f.tasks, warn |-> ""]
      [] f.kind = "nonlist"     -> [raised |-> FALSE, tasks |-> <<>>,    warn |-> "expected_list"]
      [] f.kind = "malformed"   -> [raised |-> FALSE, tasks |-> <<>>,    warn |-> "corrupt_json"]
      [] f.kind = "undecodable" -> [raised |-> TRUE,  tasks |-> <<>>,    warn |-> ""]

----------------------------------------------------------------------------
(* Task repository *)

RECURSIVE MaxId(_)
MaxId(tasks) ==
    IF tasks = <<>> THEN 0
    ELSE LET m == MaxId(Tail(tasks))
         IN  IF Head(tasks).id > m THEN Head(tasks).id ELSE m

\* next_id counting the tasks instead of taking the maximum id
next_id_count(tasks) == Len(tasks) + 1

next_id(tasks) == IF tasks = <<>> THEN 1 ELSE MaxId(tasks) + 1

\* index of the first task with that id, 0 for None
find_task(tasks, tid) ==
    IF \E i \in 1..Len(tasks) : tasks[i].id = tid
    THEN CHOOSE i \in 1..Len(tasks) :
             /\ tasks[i].id = tid
             /\ \A j \in 1..(i - 1) : tasks[j].id # tid
    ELSE 0

\* the filter of cmd_delete with < in place of !=
RECURSIVE without_below(_, _)
without_below(tasks, tid) ==
    IF tasks = <<>> THEN <<>>
    ELSE IF Head(tasks).id < tid
         THEN <<Head(tasks)>> \o without_below(Tail(tasks), tid)
         ELSE without_below(Tail(tasks), tid)

\* [t for t in tasks if t.get("id") != tid]
RECURSIVE without(_, _)
without(tasks, tid) ==
    IF tasks = <<>> THEN <<>>
    ELSE IF Head(tasks).id # tid
         THEN <<Head(tasks)>> \o without(Tail(tasks), tid)
         ELSE without(Tail(tasks), tid)

----------------------------------------------------------------------------
(* What an invocation prints *)

Msg(kind, tid, text, warn) ==
    [kind |-> kind, tid |-> tid, text |-> text, warn |-> warn, lines |-> <<>>]

Silent == Msg("none", 0, "", "")

\* an uncaught exception: the traceback, no message of the program
Traceback == Msg("traceback", 0, "", "")

SuccessKinds == {"added", "updated", "deleted", "marked"}

\* what a handler decided: the message, and the collection to save if any
NoSave(o)          == [save |-> FALSE, tasks |-> <<>>, out |-> o]
SaveThen(tasks, o) == [save |-> TRUE,  tasks |-> tasks, out |-> o]

----------------------------------------------------------------------------
(* Command handlers: args are the tokens after the verb, f the file as    *)
(* load_tasks finds it, ts the reading of now_iso                         *)

cmd_add(args, f, ts) ==
    IF Len(args) < 1 THEN NoSave(Msg("usage", 0, "add", ""))
    ELSE LET ld == load_tasks(f) IN
         IF ld.raised THEN NoSave(Traceback)
         ELSE LET tid  == next_id(ld.tasks)
                  task == [id |-> tid, description |-> args[1], status |-> "todo",
                           createdAt |-> ts, updatedAt |-> ts]
              IN  SaveThen(Append(ld.tasks, task), Msg("added", tid, args[1], ld.warn))

\* cmd_update without the refresh of updatedAt
cmd_update_stale(args, f, ts) ==
    IF Len(args) < 2 THEN NoSave(Msg("usage", 0, "update", ""))
    ELSE IF ~int(args[1]).ok THEN NoSave(Msg("invalid_id", 0, "", ""))
    ELSE LET tid == int(args[1]).val
             ld  == load_tasks(f)
         IN  IF ld.raised THEN NoSave(Traceback)
             ELSE LET i == find_task(ld.tasks, tid) IN
                  IF i = 0 THEN NoSave(Msg("not_found", tid, "", ld.warn))
                  ELSE SaveThen([ld.tasks EXCEPT ![i].description = args[2]],
                                Msg("updated", tid, args[2], ld.warn))

cmd_update(args, f, ts) ==
    IF Len(args) < 2 THEN NoSave(Msg("usage", 0, "update", ""))
    ELSE IF ~int(args[1]).ok THEN NoSave(Msg("invalid_id", 0, "", ""))
    ELSE LET tid == int(args[1]).val
             ld  == load_tasks(f)
         IN  IF ld.raised THEN NoSave(Traceback)
             ELSE LET i == find_task(ld.tasks, tid) IN
                  IF i = 0 THEN NoSave(Msg("not_found", tid, "", ld.warn))
                  ELSE SaveThen([ld.tasks EXCEPT ![i].description = args[2],
                                                 ![i].updatedAt = ts],
                                Msg("updated", tid, args[2], ld.warn))

\* cmd_delete saving the collection also when the id was not found
cmd_delete_resave(args, f, ts) ==
    IF Len(args) < 1 THEN NoSave(Msg("usage", 0, "delete", ""))
    ELSE IF ~int(args[1]).ok THEN NoSave(Msg("invalid_id", 0, "", ""))
    ELSE LET tid == int(args[1]).val
             ld  == load_tasks(f)
         IN  IF ld.raised THEN NoSave(Traceback)
             ELSE IF find_task(ld.tasks, tid) = 0
                  THEN SaveThen(ld.tasks, Msg("not_found", tid, "", ld.warn))
                  ELSE SaveThen(without(ld.tasks, tid), Msg("deleted", tid, "", ld.warn))

cmd_delete(args, f, ts) ==
    IF Len(args) < 1 THEN NoSave(Msg("usage", 0, "delete", ""))
    ELSE IF ~int(args[1]).ok THEN NoSave(Msg("invalid_id", 0, "", ""))
    ELSE LET tid == int(args[1]).val
             ld  == load_tasks(f)
         IN  IF ld.raised THEN NoSave(Traceback)
             ELSE IF find_task(ld.tasks, tid) = 0
                  THEN NoSave(Msg("not_found", tid, "", ld.warn))
                  ELSE SaveThen(without(ld.tasks, tid), Msg("deleted", tid, "", ld.warn))

cmd_mark(args, status, f, ts) ==
    IF Len(args) < 1 THEN NoSave(Msg("usage", 0, "mark-" \o status, ""))
    ELSE IF ~int(args[1]).ok THEN NoSave(Msg("invalid_id", 0, "", ""))
    ELSE LET tid == int(args[1]).val
             ld  == load_tasks(f)
         IN  IF ld.raised THEN NoSave(Traceback)
             ELSE LET i == find_task(ld.tasks, tid) IN
                  IF i = 0 THEN NoSave(Msg("not_found", tid, "", ld.warn))
                  ELSE SaveThen([ld.tasks EXCEPT ![i].status = status,
                                                 ![i].updatedAt = ts],
                                Msg("marked", tid, status, ld.warn))

VALID_STATUSES == {"todo", "in-progress", "done"}

\* the filter cmd_list applies: "" for none, "invalid" for a rejected one
status_filter(args) ==
    IF Len(args) = 0 THEN ""
    ELSE LET s == lower(args[1]) IN
         CASE s = "todo"                                      -> "todo"
           [] s \in {"in-progress", "inprogress", "in_progress"} -> "in-progress"
           [] s \in {"done", "completed"}                     -> "done"
           [] s = "all"                                       -> ""
           [] OTHER -> IF s \notin VALID_STATUSES THEN "invalid" ELSE s

\* the line fmt(t) prints, as its fields in print order
fmt(t) == <<t.id, t.status, t.description, t.createdAt, t.updatedAt>>

\* the filter of cmd_list comparing with the filter only for "todo"
filtered_todo(tasks, st) ==
    IF st = "todo" THEN SelectSeq(tasks, LAMBDA t : t.status = st) ELSE tasks

RECURSIVE filtered(_, _)
filtered(tasks, st) ==
    IF tasks = <<>> THEN <<>>
    ELSE IF st = "" \/ Head(tasks).status = st
         THEN <<Head(tasks)>> \o filtered(Tail(tasks), st)
         ELSE filtered(Tail(tasks), st)

cmd_list(args, f, ts) ==
    LET st == status_filter(args) IN
    IF st = "invalid" THEN NoSave(Msg("invalid_filter", 0, "", ""))
    ELSE LET ld == load_tasks(f) IN
         IF ld.raised THEN NoSave(Traceback)
         ELSE IF ld.tasks = <<>> THEN NoSave(Msg("no_tasks", 0, st, ld.warn))
         ELSE LET sel == filtered(ld.tasks, st) IN
              IF sel = <<>> THEN NoSave(Msg("no_match", 0, st, ld.warn))
              ELSE NoSave([Msg("listed", 0, st, ld.warn) EXCEPT
                              !.lines = [i \in 1..Len(sel) |-> fmt(sel[i])]])

\* main(): argv holds the tokens after the script name
main(av, f, ts) ==
    IF Len(av) < 1 THEN NoSave(Msg("help", 0, "", ""))
    ELSE LET cmd  == lower(av[1])
             args == Tail(av)
         IN  CASE cmd = "add" ->
                    IF Len(args) = 0 THEN NoSave(Msg("usage", 0, "add", ""))
                    ELSE cmd_add(<<join(args)>>, f, ts)
               [] cmd = "update" ->
                    IF Len(args) < 2 THEN NoSave(Msg("usage", 0, "update", ""))
                    ELSE cmd_update(<<args[1], join(Tail(args))>>, f, ts)
               [] cmd = "delete"           -> cmd_delete(args, f, ts)
               [] cmd = "mark-in-progress" -> cmd_mark(args, "in-progress", f, ts)
               [] cmd = "mark-done"        -> cmd_mark(args, "done", f, ts)
               [] cmd = "list"             -> cmd_list(args, f, ts)
               [] cmd \in {"-h", "--help", "help"} -> NoSave(Msg("help", 0, "", ""))
               [] OTHER -> NoSave(Msg("unknown", 0, cmd, ""))

----------------------------------------------------------------------------
(* Saving *)

\* TASKS_FILE.open("w"): the file exists and is empty
open_w(f) == Truncated

\* the buffered dump reaching the file at close: the bytes of the dump
\* written from offset 0 over whatever the file holds by then
write_dump(f, tasks) ==
    IF f.size <= JsonSize(tasks) THEN Dumped(tasks)
    ELSE [kind |-> "malformed", tasks |-> <<>>, size |-> f.size]

\* save_tasks(tasks) run without interruption: the files it can leave
\* behind, and whether it returned (ok) or raised OSError
save_tasks(f, tasks, d) ==
    CASE d = "ok"       -> {[file |-> write_dump(open_w(f), tasks), ok |-> TRUE]}
      [] d = "readonly" -> {[file |-> f, ok |-> FALSE]}
      [] d = "full"     -> {[file |-> Partial(n), ok |-> FALSE] :
                               n \in {0, JsonSize(tasks) - 1}}

----------------------------------------------------------------------------
(* Inputs of the invocations *)

AddArgv == {<<"add">>, <<"add", "">>, <<"ADD", "a", "b">>}

UpdateArgv == {<<"update", "1">>, <<"update", "1", "a", "b">>,
               <<"update", "02", "a", "b">>, <<"update", "x", "a", "b">>}

DeleteArgv == {<<"delete">>, <<"delete", "1">>, <<"delete", "02">>,
               <<"delete", "x">>}

MarkArgv == {<<"mark-in-progress">>, <<"mark-in-progress", "1">>,
             <<"mark-done", "1">>, <<"mark-done", "02">>, <<"mark-done", "x">>}

ListArgv == {<<"list">>, <<"List", "all">>, <<"list", "todo">>,
             <<"list", "inprogress">>, <<"list", "Completed">>,
             <<"list", "bogus">>}

OtherArgv == {<<>>, <<"--help">>, <<"frobnicate", "1">>}

----------------------------------------------------------------------------
(* Sequential invocations: one process runs main() from start to exit     *)

Idle == [p \in Terminals |-> "idle"]

Invoke(av) ==
    /\ pc = Idle
    /\ argv' = av
    /\ LET r == main(av, file, now_iso) IN
       IF ~r.save
       THEN /\ out' = r.out
            /\ UNCHANGED <<file, highest>>
       ELSE \E s \in save_tasks(file, r.tasks, disk) :
               /\ file' = s.file
               /\ out' = IF s.ok THEN r.out ELSE Traceback
               /\ highest' = IF s.ok /\ r.out.kind = "added" /\ r.out.tid > highest
                             THEN r.out.tid ELSE highest
    /\ UNCHANGED <<clock, disk, pc, pending, wrote>>

Add ==
    /\ next_id(load_tasks(file).tasks) <= MaxTid
    /\ Len(load_tasks(file).tasks) < MaxLen
    /\ \E av \in AddArgv : Invoke(av)

Update ==
    /\ pc = Idle
    /\ \E av \in UpdateArgv : Invoke(av)

Delete ==
    /\ pc = Idle
    /\ \E av \in DeleteArgv : Invoke(av)

Mark ==
    /\ pc = Idle
    /\ \E av \in MarkArgv : Invoke(av)

List ==
    /\ pc = Idle
    /\ \E av \in ListArgv : Invoke(av)

Other ==
    /\ pc = Idle
    /\ \E av \in OtherArgv : Invoke(av)

\* time passes between invocations
Tick ==
    /\ clock < MaxClock
    /\ clock' = clock + 1
    /\ UNCHANGED <<file, disk, argv, out, highest, pc, pending, wrote>>

NoPending == [p \in Terminals |-> NoSave(Silent)]
NoWrote   == [p \in Terminals |-> [done |-> FALSE, tasks |-> <<>>]]

\* tasks.json as the first invocation can find it
InitFiles == {Absent, Dumped(<<>>), Malformed, NonList, Undecodable}

Init ==
    /\ file \in InitFiles
    /\ clock = 0
    /\ disk = "ok"
    /\ argv = <<>>
    /\ out = Silent
    /\ highest = 0
    /\ pc = Idle
    /\ pending = NoPending
    /\ wrote = NoWrote

Next == Add \/ Update \/ Delete \/ Mark \/ List \/ Other \/ Tick

Spec == Init /\ [][Next]_vars

----------------------------------------------------------------------------
(* Sequential invocations on a disk that can stop accepting writes        *)

DiskChange ==
    /\ pc = Idle
    /\ \E d \in {"ok", "readonly", "full"} : d # disk /\ disk' = d
    /\ UNCHANGED <<file, clock, argv, out, highest, pc, pending, wrote>>

NextFail == Add \/ Update \/ Delete \/ Mark \/ List \/ Other \/ DiskChange

SpecFail == Init /\ [][NextFail]_vars

----------------------------------------------------------------------------
(* Two terminals: an invocation loads, opens the file for writing and     *)
(* writes as three steps, the other terminal's steps falling in between   *)

ConcArgv == {<<"add", "a", "b">>, <<"mark-done", "1">>, <<"delete", "1">>,
             <<"list">>}

\* main() up to and including load_tasks and the change in memory
Begin(p) ==
    /\ pc[p] = "idle"
    /\ \E av \in ConcArgv :
         LET r == main(av, file, now_iso) IN
         /\ argv' = av
         /\ r.out.kind = "added" =>
                (r.out.tid <= MaxTid /\ Len(r.tasks) <= MaxLen)
         /\ IF r.save
            THEN /\ pc' = [pc EXCEPT ![p] = "loaded"]
                 /\ pending' = [pending EXCEPT ![p] = r]
                 /\ out' = out
            ELSE /\ out' = r.out
                 /\ UNCHANGED <<pc, pending>>
    /\ UNCHANGED <<file, clock, disk, highest, wrote>>

\* save_tasks: TASKS_FILE.open("w")
Open(p) ==
    /\ pc[p] = "loaded"
    /\ file' = open_w(file)
    /\ pc' = [pc EXCEPT ![p] = "opened"]
    /\ UNCHANGED <<clock, disk, argv, out, highest, pending, wrote>>

\* save_tasks: json.dump and close, then the success message
Write(p) ==
    /\ pc[p] = "opened"
    /\ file' = write_dump(file, pending[p].tasks)
    /\ out' = pending[p].out
    /\ highest' = IF pending[p].out.kind = "added" /\ pending[p].out.tid > highest
                  THEN pending[p].out.tid ELSE highest
    /\ wrote' = [wrote EXCEPT ![p] = [done |-> TRUE, tasks |-> pending[p].tasks]]
    /\ pending' = [pending EXCEPT ![p] = NoSave(Silent)]
    /\ pc' = [pc EXCEPT ![p] = "idle"]
    /\ UNCHANGED <<clock, disk, argv>>

InitConc == Init /\ file = Absent

NextConc == \E p \in Terminals : Begin(p) \/ Open(p) \/ Write(p)

SpecConc == InitConc /\ [][NextConc]_vars

----------------------------------------------------------------------------
(* Properties *)

Tasks == IF file.kind = "list" THEN file.tasks ELSE <<>>

\* the positions of the tasks with that id
Holders(tasks, tid) == {i \in 1..Len(tasks) : tasks[i].id = tid}

\* the id an argv names as its first argument, 0 when it names none
ArgId(av) ==
    IF Len(av) >= 2 /\ int(av[2]).ok THEN int(av[2]).val ELSE 0

\* the argv runs a verb on the id of a task the file holds
Hits(av, verbs) ==
    /\ Len(av) >= 2
    /\ lower(av[1]) \in verbs
    /\ int(av[2]).ok
    /\ Holders(Tasks, ArgId(av)) # {}

\* the step is one invocation of main(), run from start to exit
Ran == pc = Idle /\ pc' = Idle /\ clock' = clock /\ disk' = disk

\* the verb of a command line, "" when there is none
Verb(av) == IF Len(av) >= 1 THEN lower(av[1]) ELSE ""

\* C1: every id an add assigns is greater than every id an earlier add
\* assigned, so a deleted id is never assigned again.
C1_IdsNeverReused ==
    [][(Ran /\ out'.kind = "added") => out'.tid > highest]_vars

\* C2: no two tasks of the saved collection have the same id, and every id
\* is a positive integer.
C2_IdsUniquePositive ==
    file.kind = "list" =>
        /\ \A i, j \in 1..Len(file.tasks) :
               i # j => file.tasks[i].id # file.tasks[j].id
        /\ \A i \in 1..Len(file.tasks) : file.tasks[i].id \in Nat \ {0}

\* an add after the deletion of a task that did not hold the maximum id
C2_Witness ==
    /\ out.kind = "added"
    /\ file.kind = "list"
    /\ Len(file.tasks) = 2
    /\ file.tasks[1].id + 1 = file.tasks[2].id
    /\ file.tasks[1].id > 1

\* C3: an add whose description is empty (no tokens after the verb, or
\* only an empty token) prints the usage message and leaves tasks.json
\* unchanged.
C3_EmptyAddNoMutation ==
    [][(Ran /\ Verb(argv') = "add" /\ join(Tail(argv')) = "") =>
           (file' = file /\ out'.kind = "usage")]_vars

UpdateFrame(old, new, i, text) ==
    /\ Len(new) = Len(old)
    /\ \A j \in 1..Len(old) : j # i => new[j] = old[j]
    /\ new[i].id = old[i].id
    /\ new[i].status = old[i].status
    /\ new[i].createdAt = old[i].createdAt
    /\ new[i].description = text

\* C5 as stated: update sets the description and leaves the rest alone,
\* and the new updatedAt is strictly later than the previous one.
C5_UpdatedAtStrictlyLater ==
    [][(Ran /\ Len(argv') >= 3 /\ Hits(argv', {"update"})) =>
           LET i == CHOOSE k \in Holders(file.tasks, ArgId(argv')) : TRUE
           IN  /\ file'.kind = "list"
               /\ UpdateFrame(file.tasks, file'.tasks, i, join(Tail(Tail(argv'))))
               /\ file'.tasks[i].updatedAt > file.tasks[i].updatedAt]_vars

\* C5 amended: update sets the description and leaves the rest alone, and
\* the new updatedAt is the time of the update in whole seconds, which
\* equals the previous updatedAt when both fall in the same second.
C5_UpdatedAtIsNow ==
    [][(Ran /\ Len(argv') >= 3 /\ Hits(argv', {"update"})) =>
           LET i == CHOOSE k \in Holders(file.tasks, ArgId(argv')) : TRUE
           IN  /\ file'.kind = "list"
               /\ UpdateFrame(file.tasks, file'.tasks, i, join(Tail(Tail(argv'))))
               /\ 2 * file'.tasks[i].updatedAt <= clock
               /\ clock < 2 * (file'.tasks[i].updatedAt + 1)]_vars

\* an update changed the description of the second of two tasks and
\* moved its updatedAt past its createdAt, the first task as it was added
C5_Witness ==
    /\ out.kind = "updated"
    /\ file.kind = "list"
    /\ Len(file.tasks) = 2
    /\ file.tasks[2].id = out.tid
    /\ file.tasks[2].description = "a b"
    /\ file.tasks[2].updatedAt > file.tasks[2].createdAt
    /\ file.tasks[1].description = ""
    /\ file.tasks[1].updatedAt = file.tasks[1].createdAt

\* what the commands report for an input they reject
Rejection(av) ==
    LET byId == {"update", "delete", "mark-in-progress", "mark-done"}
    IN  CASE Verb(av) \in byId /\ Len(av) < (IF Verb(av) = "update" THEN 3 ELSE 2)
               -> "usage"
          [] Verb(av) \in byId /\ ~int(av[2]).ok
               -> "invalid_id"
          [] Verb(av) \in byId /\ file.kind = "undecodable"
               -> "traceback"
          [] Verb(av) \in byId /\ Holders(Tasks, ArgId(av)) = {}
               -> "not_found"
          [] Verb(av) = "list" /\ Len(av) >= 2 /\
             av[2] \notin {"all", "todo", "in-progress", "inprogress",
                           "in_progress", "done", "completed", "Completed"}
               -> "invalid_filter"
          [] Len(av) >= 1 /\ Verb(av) \notin byId \cup {"add", "list", "help",
                                                        "-h", "--help"}
               -> "unknown"
          [] OTHER -> "accepted"

C7_CorruptFileReadAsEmpty ==
    [][(Ran /\ file.kind \in {"malformed", "nonlist", "undecodable"}) =>
           LET empty == out'.kind \in {"no_tasks", "not_found", "added"}
           IN  /\ out'.kind # "traceback"
               /\ Verb(argv') = "list" /\ Rejection(argv') = "accepted"
                     => out'.kind = "no_tasks"
               /\ Rejection(argv') = "not_found" => out'.kind = "not_found"
               /\ empty => out'.warn # ""
               /\ out'.kind # "added" => file' = file
               /\ out'.kind = "added" =>
                     /\ file'.kind = "list"
                     /\ Len(file'.tasks) = 1
                     /\ file'.tasks[1].id = 1]_vars

\* The part of C7 the code keeps: malformed JSON text and JSON that is not
\* an array are read as an empty collection, with a warning.
CorruptTextReadAsEmpty ==
    [][(Ran /\ file.kind \in {"malformed", "nonlist"}) =>
           /\ out'.kind # "traceback"
           /\ Verb(argv') = "list" /\ Rejection(argv') = "accepted"
                 => out'.kind = "no_tasks"
           /\ Rejection(argv') = "not_found" => out'.kind = "not_found"
           /\ out'.kind \in {"no_tasks", "not_found", "added"} => out'.warn # ""
           /\ out'.kind # "added" => file' = file
           /\ out'.kind = "added" => file'.kind = "list" /\ Len(file'.tasks) = 1
                                     /\ file'.tasks[1].id = 1]_vars

\* the filter a list argument stands for: "" for no filtering
Normalized(arg) ==
    CASE arg \in {"todo"}                                    -> "todo"
      [] arg \in {"in-progress", "inprogress", "in_progress"} -> "in-progress"
      [] arg \in {"done", "completed", "Completed"}           -> "done"
      [] arg \in {"all"}                                      -> ""
      [] OTHER                                                -> "invalid"

Matches(t, st) == st = "" \/ t.status = st

\* the lines are the tasks matching st, each once, in collection order
ExactlyMatching(lines, tasks, st) ==
    LET idx == {i \in 1..Len(tasks) : Matches(tasks[i], st)}
    IN  /\ Len(lines) = Cardinality(idx)
        /\ \E pos \in [1..Len(lines) -> idx] :
              /\ \A a, b \in 1..Len(lines) : a < b => pos[a] < pos[b]
              /\ \A a \in 1..Len(lines) :
                    lines[a] = <<tasks[pos[a]].id, tasks[pos[a]].status,
                                 tasks[pos[a]].description,
                                 tasks[pos[a]].createdAt, tasks[pos[a]].updatedAt>>

ListOf(arg, f) == main(<<"list", arg>>, f, now_iso).out

\* C8: list prints exactly the tasks whose status is the normalized
\* filter, in collection order, "No tasks found." for an empty collection
\* and "No tasks match the filter." when none matches; after a mark the
\* task is in the list of its new status and not in the list of todo,
\* and no command other than a mark changes the status of a task it keeps.
C8_ListShowsMatching ==
    [][/\ (Ran /\ Verb(argv') = "list" /\ file.kind \in {"list", "absent"}) =>
              LET st == IF Len(argv') = 1 THEN "" ELSE Normalized(argv'[2])
              IN  st # "invalid" =>
                    /\ file' = file
                    /\ Tasks = <<>> => out'.kind = "no_tasks"
                    /\ (Tasks # <<>> /\ \A i \in 1..Len(Tasks) :
                                            ~Matches(Tasks[i], st))
                          => out'.kind = "no_match"
                    /\ (\E i \in 1..Len(Tasks) : Matches(Tasks[i], st))
                          => /\ out'.kind = "listed"
                             /\ ExactlyMatching(out'.lines, Tasks, st)
       /\ (Ran /\ Hits(argv', {"mark-in-progress", "mark-done"})) =>
              LET new  == IF argv'[1] = "mark-done" THEN "done" ELSE "in-progress"
                  mine == {l \in Range(ListOf(new, file').lines) :
                              l[1] = ArgId(argv')}
              IN  /\ Cardinality(mine) = 1
                  /\ \A l \in Range(ListOf("todo", file').lines) :
                        l[1] # ArgId(argv')
       /\ (Ran /\ Verb(argv') \notin {"mark-in-progress", "mark-done"}
                /\ file.kind = "list" /\ file'.kind = "list") =>
              \A i \in 1..Len(file.tasks), j \in 1..Len(file'.tasks) :
                  file.tasks[i].id = file'.tasks[j].id =>
                      file.tasks[i].status = file'.tasks[j].status]_vars

\* a filtered list printed one task of two, the one marked done
C8_Witness ==
    /\ out.kind = "listed"
    /\ out.text = "done"
    /\ Len(out.lines) = 1
    /\ file.kind = "list"
    /\ Len(file.tasks) = 2
    /\ file.tasks[2].status = "done"
    /\ file.tasks[1].status = "todo"

\* C9: once both invocations have ended, tasks.json holds the collection
\* that one of the two writers saved, with unique ids.
C9_LastWriterWins ==
    (pc = Idle /\ \E p \in Terminals : wrote[p].done) =>
        /\ file.kind = "list"
        /\ \E p \in Terminals : wrote[p].done /\ file.tasks = wrote[p].tasks
        /\ \A i, j \in 1..Len(file.tasks) :
               i # j => file.tasks[i].id # file.tasks[j].id

\* a mark and an add both reported success and the file holds the effect
\* of the add alone: the task marked done is todo
C9_LostUpdate ==
    /\ pc = Idle
    /\ wrote[1].done /\ Len(wrote[1].tasks) = 1 /\ wrote[1].tasks[1].status = "done"
    /\ wrote[2].done /\ Len(wrote[2].tasks) = 2
    /\ file = Dumped(wrote[2].tasks)
    /\ file.tasks[1].status = "todo"

\* C10: when the write of save_tasks fails, at open or after it, the
\* command prints no success message and tasks.json holds the collection
\* it held before.
C10_FailedSaveKeepsFile ==
    [][(Ran /\ disk # "ok" /\ main(argv', file, now_iso).save) =>
           (out'.kind \notin SuccessKinds /\ file' = file)]_vars

\* The part of C10 the code keeps: a failed save prints no success
\* message, and a save that fails at open leaves the file as it was.
FailedSaveNotMasked ==
    [][(Ran /\ disk # "ok" /\ main(argv', file, now_iso).save) =>
           (out'.kind = "traceback" /\ (disk = "readonly" => file' = file))]_vars

====
